---------------------------- MODULE Spec2Model ----------------------------
(***************************************************************************)
(* A model of src/src/PerformanceTracker.js: the module-level snapshot     *)
(* performanceMetrics, the seven signal collectors with their observers,   *)
(* listeners and fallback timers, the aggregation join of                  *)
(* getPerformanceMetrics, trackComponentRender, checkPerformanceAlerts,    *)
(* calculatePerformanceScore, provideFeedback and runPerformanceTracker.   *)
(*                                                                         *)
(* Numbers.  A JavaScript number n is held as the integer n * 10^5 (five   *)
(* decimals, fixed point), so 734.567 is 73456700 and the layout-shift     *)
(* ceiling 0.1 is 10000.  toFixed(2) and toFixed(4) round to a multiple of *)
(* 10^3 and of 10.  The host inputs below carry at most three decimals for *)
(* times and five for layout-shift values, and none lies half way between  *)
(* two results of toFixed (where the binary value of the double decides).  *)
(* A string produced by toFixed is held as the number it denotes: the code *)
(* only compares it with > and subtracts from it, both of which convert it *)
(* back to a number.                                                       *)
(*                                                                         *)
(* calculatePerformanceScore computes with doubles, and Math.round makes   *)
(* the last bit of its argument visible: (0.525 - 0.1) * 100 is            *)
(* 42.50000000000001 and the score 57, not 58.  Its arithmetic is          *)
(* therefore carried out on IEEE 754 doubles, each a sign, an integer      *)
(* significand and a binary exponent, every operation rounded to nearest   *)
(* with ties to even.                                                      *)
(*                                                                         *)
(* null and undefined are the empty tuple; a number n is <<n>>.            *)
(***************************************************************************)
EXTENDS Integers, Sequences, FiniteSets, TLC

VARIABLES
    performanceMetrics, \* the module-level snapshot (src line 46)
    env,                \* the host: [window, po] (typeof window, PerformanceObserver)
    readyState,         \* document.readyState: "loading" or "complete"
    loadFired,          \* the window load event has been dispatched
    calls,              \* the getPerformanceMetrics calls in flight, by slot
    pushed,             \* history: the arguments of every trackComponentRender call
    last,               \* the most recent synchronous call: its name, arguments and result
    run,                \* the runPerformanceTracker call: its options, position and results
    dispatch            \* the event being dispatched and the listeners still to be invoked

vars ==
    <<performanceMetrics, env, readyState, loadFired, calls, pushed, last, run, dispatch>>

----------------------------------------------------------------------------
(* Numbers *)

\* The fixed-point representation of the number 1.
One == 10^5

\* n milliseconds (or n score points) in fixed point.
Fx(n) == n * One

Null == <<>>

Undefined == <<>>

Known(v) == <<v>>

\* ToNumber of a snapshot field: null converts to 0, a toFixed string to its value.
ToNumber(x) == IF x = Null THEN 0 ELSE x[1]

Max(a, b) == IF a >= b THEN a ELSE b

\* Number.prototype.toFixed(2): the nearest multiple of 0.01, the magnitude
\* rounded half up and the sign kept.
ToFixed2(x) ==
    IF x < 0 THEN -(((-x + 500) \div 1000) * 1000)
    ELSE ((x + 500) \div 1000) * 1000

\* Number.prototype.toFixed(4): the nearest multiple of 0.0001.
ToFixed4(x) ==
    IF x < 0 THEN -(((-x + 5) \div 10) * 10)
    ELSE ((x + 5) \div 10) * 10

----------------------------------------------------------------------------
(* IEEE 754 double-precision arithmetic.                                   *)
(* A natural number is a sequence of limbs in base 2^24, the least         *)
(* significant first and the most significant not 0; a double is           *)
(* [neg, m, e], the number (-1)^neg * m * 2^e with m below 2^53 + 1.       *)

Base == 16777216

LimbBits == 24

\* The bits of the significand of a double.
Precision == 53

RECURSIVE Limbs(_)
Limbs(n) == IF n = 0 THEN <<>> ELSE <<n % Base>> \o Limbs(n \div Base)

RECURSIVE Trim(_)
Trim(a) ==
    IF a # <<>> /\ a[Len(a)] = 0 THEN Trim(SubSeq(a, 1, Len(a) - 1)) ELSE a

Limb(a, i) == IF i <= Len(a) THEN a[i] ELSE 0

RECURSIVE AddLimbs(_, _, _, _)
AddLimbs(a, b, i, carry) ==
    IF i > Len(a) /\ i > Len(b) THEN (IF carry = 0 THEN <<>> ELSE <<carry>>)
    ELSE LET s == Limb(a, i) + Limb(b, i) + carry
         IN  <<s % Base>> \o AddLimbs(a, b, i + 1, s \div Base)

\* a - b for a >= b.
RECURSIVE SubLimbs(_, _, _, _)
SubLimbs(a, b, i, borrow) ==
    IF i > Len(a) THEN <<>>
    ELSE LET d == Limb(a, i) - Limb(b, i) - borrow
         IN  <<IF d < 0 THEN d + Base ELSE d>>
             \o SubLimbs(a, b, i + 1, IF d < 0 THEN 1 ELSE 0)

RECURSIVE CompareFrom(_, _, _)
CompareFrom(a, b, i) ==
    IF i = 0 THEN 0
    ELSE IF a[i] > b[i] THEN 1
    ELSE IF a[i] < b[i] THEN -1
    ELSE CompareFrom(a, b, i - 1)

\* 1, 0 or -1 as a is greater than, equal to or less than b.
Compare(a, b) ==
    IF Len(a) > Len(b) THEN 1
    ELSE IF Len(a) < Len(b) THEN -1
    ELSE CompareFrom(a, b, Len(a))

\* a * k for a small k (at most 100).
RECURSIVE MulSmall(_, _, _, _)
MulSmall(a, k, i, carry) ==
    IF i > Len(a) THEN (IF carry = 0 THEN <<>> ELSE <<carry>>)
    ELSE LET s == a[i] * k + carry
         IN  <<s % Base>> \o MulSmall(a, k, i + 1, s \div Base)

\* Quotient and remainder of a by a small d (at most 100), from limb i down.
RECURSIVE DivSmall(_, _, _, _)
DivSmall(a, d, i, rem) ==
    IF i = 0 THEN [q |-> <<>>, r |-> rem]
    ELSE LET cur == rem * Base + a[i]
             rest == DivSmall(a, d, i - 1, cur % d)
         IN  [q |-> Append(rest.q, cur \div d), r |-> rest.r]

RECURSIVE ShiftLeftBits(_, _, _, _)
ShiftLeftBits(a, r, i, carry) ==
    IF i > Len(a) THEN (IF carry = 0 THEN <<>> ELSE <<carry>>)
    ELSE LET low == 2 ^ (LimbBits - r)
         IN  <<(a[i] % low) * (2 ^ r) + carry>>
             \o ShiftLeftBits(a, r, i + 1, a[i] \div low)

\* a * 2^n
ShiftLeft(a, n) ==
    IF a = <<>> THEN <<>>
    ELSE [i \in 1 .. (n \div LimbBits) |-> 0] \o ShiftLeftBits(a, n % LimbBits, 1, 0)

RECURSIVE ShiftRightBits(_, _, _)
ShiftRightBits(a, r, i) ==
    IF i > Len(a) THEN <<>>
    ELSE <<(a[i] \div (2 ^ r)) + (Limb(a, i + 1) % (2 ^ r)) * (2 ^ (LimbBits - r))>>
         \o ShiftRightBits(a, r, i + 1)

\* a \div 2^n
ShiftRight(a, n) ==
    IF n \div LimbBits >= Len(a) THEN <<>>
    ELSE Trim(ShiftRightBits(SubSeq(a, (n \div LimbBits) + 1, Len(a)), n % LimbBits, 1))

\* a % 2^n # 0: one of the n lowest bits of a is 1.
LowBits(a, n) ==
    \/ \E i \in 1 .. Len(a) : i <= n \div LimbBits /\ a[i] # 0
    \/ Limb(a, (n \div LimbBits) + 1) % (2 ^ (n % LimbBits)) # 0

\* Bit n of a, the lowest being bit 0.
Bit(a, n) == (Limb(a, (n \div LimbBits) + 1) \div (2 ^ (n % LimbBits))) % 2

\* The number of bits of a limb: of n below 8, below 64, below 4096, below Base.
BitLen3(n) == IF n >= 4 THEN 3 ELSE IF n >= 2 THEN 2 ELSE n

BitLen6(n) == IF n >= 8 THEN 3 + BitLen3(n \div 8) ELSE BitLen3(n)

BitLen12(n) == IF n >= 64 THEN 6 + BitLen6(n \div 64) ELSE BitLen6(n)

BitLen(n) == IF n >= 4096 THEN 12 + BitLen12(n \div 4096) ELSE BitLen12(n)

BitLength(a) ==
    IF a = <<>> THEN 0 ELSE LimbBits * (Len(a) - 1) + BitLen(a[Len(a)])

IsOdd(a) == a # <<>> /\ a[1] % 2 = 1

\* The small integer a denotes.
ToInt(a) == Limb(a, 1) + Limb(a, 2) * Base

Zero == [neg |-> FALSE, m |-> <<>>, e |-> 0]

\* The double nearest to (-1)^neg * (x + s) * 2^e, where s is 0 or, when
\* sticky, a fraction strictly between 0 and 1; a tie goes to the even
\* significand.  x has at least Precision + 2 bits when sticky.
RoundToDouble(neg, x, e, sticky) ==
    IF x = <<>> THEN Zero
    ELSE IF LimbBits * Len(x) <= Precision \/ BitLength(x) <= Precision
    THEN [neg |-> neg, m |-> x, e |-> e]
    ELSE LET k == BitLength(x) - Precision
             kept == ShiftRight(x, k)
             up == Bit(x, k - 1) = 1 /\ (sticky \/ LowBits(x, k - 1) \/ IsOdd(kept))
         IN  [neg |-> neg,
              m |-> IF up THEN AddLimbs(kept, <<1>>, 1, 0) ELSE kept,
              e |-> e + k]

\* The double a decimal literal or a toFixed string denotes: the double
\* nearest to n / 10^5, which is n / (125 * 25) / 2^5.
FromDecimal(n) ==
    IF n % One = 0
    THEN [neg |-> n < 0, m |-> Limbs((IF n < 0 THEN -n ELSE n) \div One), e |-> 0]
    ELSE LET scaled == ShiftLeft(Limbs(IF n < 0 THEN -n ELSE n), 3 * LimbBits)
             d1 == DivSmall(scaled, 125, Len(scaled), 0)
             q1 == Trim(d1.q)
             d2 == DivSmall(q1, 25, Len(q1), 0)
         IN  RoundToDouble(n < 0, Trim(d2.q), -3 * LimbBits - 5, d1.r # 0 \/ d2.r # 0)

Negated(a) == IF a.m = <<>> THEN a ELSE [a EXCEPT !.neg = ~a.neg]

\* a + b
DoubleAdd(a, b) ==
    IF a.m = <<>> THEN b
    ELSE IF b.m = <<>> THEN a
    ELSE LET e == IF a.e < b.e THEN a.e ELSE b.e
             am == ShiftLeft(a.m, a.e - e)
             bm == ShiftLeft(b.m, b.e - e)
         IN  IF a.neg = b.neg
             THEN RoundToDouble(a.neg, AddLimbs(am, bm, 1, 0), e, FALSE)
             ELSE IF Compare(am, bm) >= 0
             THEN RoundToDouble(a.neg, Trim(SubLimbs(am, bm, 1, 0)), e, FALSE)
             ELSE RoundToDouble(b.neg, Trim(SubLimbs(bm, am, 1, 0)), e, FALSE)

\* a - b
DoubleSub(a, b) == DoubleAdd(a, Negated(b))

\* a * 100
DoubleTimes100(a) == RoundToDouble(a.neg, MulSmall(a.m, 100, 1, 0), a.e, FALSE)

\* a / 100
DoubleOver100(a) ==
    LET exact == DivSmall(a.m, 100, Len(a.m), 0)
    IN  IF exact.r = 0 THEN [a EXCEPT !.m = Trim(exact.q)]
        ELSE LET s == 3 * LimbBits
                 x == ShiftLeft(a.m, s)
                 d == DivSmall(x, 100, Len(x), 0)
             IN  RoundToDouble(a.neg, Trim(d.q), a.e - s, d.r # 0)

\* a > 0
IsPositive(a) == ~a.neg /\ a.m # <<>>

\* Math.round(a): floor(a + 0.5), the nearest integer with a half rounded
\* towards +infinity, as a plain integer.
MathRound(a) ==
    IF a.m = <<>> THEN 0
    ELSE IF a.e >= 0 THEN (IF a.neg THEN -1 ELSE 1) * ToInt(ShiftLeft(a.m, a.e))
    ELSE LET half == ShiftLeft(<<1>>, -a.e - 1)
         IN  IF ~a.neg
             THEN ToInt(ShiftRight(AddLimbs(a.m, half, 1, 0), -a.e))
             ELSE IF Compare(a.m, half) <= 0 THEN 0
             ELSE LET d == Trim(SubLimbs(a.m, half, 1, 0))
                  IN  -(ToInt(ShiftRight(d, -a.e)) + (IF LowBits(d, -a.e) THEN 1 ELSE 0))

----------------------------------------------------------------------------
(* Thresholds *)

ThresholdKeys == {"fcp", "lcp", "tti", "cls", "fid", "inp", "ttfb", "componentRenderTime"}

\* The seven scalar metrics in the order the code walks them, with the
\* snapshot field each threshold key reads.
ScalarKeys == <<"fcp", "lcp", "tti", "cls", "fid", "inp", "ttfb">>

FieldOf ==
    [fcp |-> "firstContentfulPaint", lcp |-> "largestContentfulPaint",
     tti |-> "timeToInteractive", cls |-> "cumulativeLayoutShift",
     fid |-> "firstInputDelay", inp |-> "interactionToNextPaint",
     ttfb |-> "timeToFirstByte"]

ScalarFields ==
    {"firstContentfulPaint", "timeToInteractive", "largestContentfulPaint",
     "cumulativeLayoutShift", "firstInputDelay", "interactionToNextPaint",
     "timeToFirstByte"}

defaultThresholds ==
    [fcp |-> Fx(2000), lcp |-> Fx(2500), tti |-> Fx(3000), cls |-> One \div 10,
     fid |-> Fx(100), inp |-> Fx(200), ttfb |-> Fx(800),
     componentRenderTime |-> Fx(500)]

MAX_SCORE == 100

\* An argument of checkPerformanceAlerts: omitted, null, or an object that
\* sets some of the keys.
OmittedArg == <<"undefined">>

NullArg == <<"null">>

ObjectArg(obj) == <<"object", obj>>

\* `thresholds = {}` in the parameter list, then `thresholds || defaultThresholds`:
\* the default parameter replaces only an omitted argument, by the empty
\* object, which is truthy; only a falsy argument reaches the defaults.
ThresholdsUsed(arg) ==
    IF arg[1] = "undefined" THEN <<>>
    ELSE IF arg[1] = "null" THEN defaultThresholds
    ELSE arg[2]

\* The destructuring `const { fcp, ... } = obj`: a key the object lacks is undefined.
Destructure(obj, key) ==
    IF key \in DOMAIN obj THEN Known(obj[key]) ELSE Undefined

\* `a > b` where b may be undefined: a comparison with undefined is false.
GreaterThan(a, b) == b # Undefined /\ a > b[1]

----------------------------------------------------------------------------
(* checkPerformanceAlerts *)

ScalarAlert(key, value, threshold) ==
    [key |-> key, name |-> "", value |-> value, threshold |-> threshold]

ComponentAlert(name, renderTime, threshold) ==
    [key |-> "componentRenderTime", name |-> name, value |-> renderTime,
     threshold |-> threshold]

\* One `if (performanceMetrics.x != null && performanceMetrics.x > t) console.warn(...)`.
ScalarCheck(pm, used, key) ==
    LET value == pm[FieldOf[key]]
        threshold == Destructure(used, key)
    IN  IF value # Null /\ GreaterThan(ToNumber(value), threshold)
        THEN <<ScalarAlert(key, value[1], threshold[1])>>
        ELSE <<>>

RECURSIVE ScalarChecks(_, _, _)
ScalarChecks(pm, used, i) ==
    IF i > Len(ScalarKeys) THEN <<>>
    ELSE ScalarCheck(pm, used, ScalarKeys[i]) \o ScalarChecks(pm, used, i + 1)

\* componentRenderTimes.forEach(({ name, renderTime }) => { if (renderTime > t) warn })
RECURSIVE ComponentChecks(_, _, _)
ComponentChecks(records, threshold, i) ==
    IF i > Len(records) THEN <<>>
    ELSE (IF GreaterThan(records[i].renderTime, threshold)
          THEN <<ComponentAlert(records[i].name, records[i].renderTime, threshold[1])>>
          ELSE <<>>)
         \o ComponentChecks(records, threshold, i + 1)

\* The console.warn lines of checkPerformanceAlerts(arg), in order.
checkPerformanceAlerts(pm, arg) ==
    LET used == ThresholdsUsed(arg)
    IN  ScalarChecks(pm, used, 1)
        \o ComponentChecks(pm.componentRenderTimes,
                           Destructure(used, "componentRenderTime"), 1)

----------------------------------------------------------------------------
(* calculatePerformanceScore and provideFeedback *)

\* The doubles the literals of defaultThresholds and MAX_SCORE denote.
thresholdNumbers == [key \in ThresholdKeys |-> FromDecimal(defaultThresholds[key])]

maxScoreNumber == FromDecimal(Fx(MAX_SCORE))

\* The double a snapshot field converts to: null to 0, a toFixed string to
\* the double nearest to the decimal it spells.
NumberOf(x) == FromDecimal(ToNumber(x))

\* `(performanceMetrics.x - defaultThresholds.key) / 100`
TimeDifference(x, key) == DoubleOver100(DoubleSub(NumberOf(x), thresholdNumbers[key]))

\* `(performanceMetrics.cumulativeLayoutShift - defaultThresholds.cls) * 100`
ShiftDifference(x) == DoubleTimes100(DoubleSub(NumberOf(x), thresholdNumbers.cls))

\* The array metricDifferences of the code, of doubles.
metricDifferences(pm) ==
    << TimeDifference(pm.firstContentfulPaint, "fcp"),
       TimeDifference(pm.largestContentfulPaint, "lcp"),
       TimeDifference(pm.timeToInteractive, "tti"),
       ShiftDifference(pm.cumulativeLayoutShift),
       TimeDifference(pm.firstInputDelay, "fid"),
       TimeDifference(pm.interactionToNextPaint, "inp"),
       TimeDifference(pm.timeToFirstByte, "ttfb") >>

\* A variant that subtracts every difference, also a negative one.
PenaliseAlways(s, diff) == DoubleSub(s, diff)

\* `if (diff > 0) score -= diff`
Penalise(s, diff) == IF IsPositive(diff) THEN DoubleSub(s, diff) ELSE s

\* metricDifferences.forEach((diff) => { if (diff > 0) score -= diff })
RECURSIVE SubtractDiffs(_, _, _)
SubtractDiffs(s, diffs, i) ==
    IF i > Len(diffs) THEN s
    ELSE SubtractDiffs(Penalise(s, diffs[i]), diffs, i + 1)

\* A variant that adds a render's overage to the score (+= for -=).
RECURSIVE SubtractRendersAdding(_, _, _)
SubtractRendersAdding(s, records, i) ==
    IF i > Len(records) THEN s
    ELSE LET diff == TimeDifference(Known(records[i].renderTime), "componentRenderTime")
         IN  SubtractRendersAdding(IF IsPositive(diff) THEN DoubleAdd(s, diff) ELSE s,
                                   records, i + 1)

\* componentRenderTimes.forEach(({ renderTime }) => { diff = ...; if (diff > 0) score -= diff })
RECURSIVE SubtractRenders(_, _, _)
SubtractRenders(s, records, i) ==
    IF i > Len(records) THEN s
    ELSE SubtractRenders(
             Penalise(s, TimeDifference(Known(records[i].renderTime),
                                        "componentRenderTime")),
             records, i + 1)

\* `return Math.max(0, Math.round(score))`
ClampRound(s) == Max(0, MathRound(s))

\* `let score = MAX_SCORE`, the two loops and the return; the result is a
\* plain integer.
calculatePerformanceScore(pm) ==
    ClampRound(SubtractRenders(SubtractDiffs(maxScoreNumber, metricDifferences(pm), 1),
                               pm.componentRenderTimes, 1))

feedbackMap ==
    << [threshold |-> 90, tier |-> "excellent"],
       [threshold |-> 70, tier |-> "good"],
       [threshold |-> 0, tier |-> "needs improvement"] >>

\* A variant whose tiers are exclusive at the lower edge (> for >=).
RECURSIVE FindStrict(_, _, _)
FindStrict(map, s, i) ==
    IF i > Len(map) THEN Undefined
    ELSE IF s > map[i].threshold THEN Known(map[i])
    ELSE FindStrict(map, s, i + 1)

\* feedbackMap.find((fb) => score >= fb.threshold): the first entry that matches.
RECURSIVE Find(_, _, _)
Find(map, s, i) ==
    IF i > Len(map) THEN Undefined
    ELSE IF s >= map[i].threshold THEN Known(map[i])
    ELSE Find(map, s, i + 1)

\* The lines provideFeedback(s) logs: feedback?.message, once.
provideFeedback(s) ==
    LET feedback == Find(feedbackMap, s, 1)
    IN  IF feedback = Undefined THEN <<[tier |-> "undefined", score |-> s]>>
        ELSE <<[tier |-> feedback[1].tier, score |-> s]>>

----------------------------------------------------------------------------
(* The snapshot and trackComponentRender *)

\* `let performanceMetrics = { ... }` as the module is loaded.
InitialMetrics ==
    [firstContentfulPaint |-> Null, timeToInteractive |-> Null,
     largestContentfulPaint |-> Null, cumulativeLayoutShift |-> Known(0),
     firstInputDelay |-> Null, interactionToNextPaint |-> Null,
     timeToFirstByte |-> Null, componentRenderTimes |-> <<>>]

\* performanceMetrics.componentRenderTimes.push({ name, renderTime })
PushRecord(pm, name, renderTime) ==
    [pm EXCEPT !.componentRenderTimes =
                    Append(@, [name |-> name, renderTime |-> renderTime])]

\* A variant that returns the render time as given, unformatted.
RenderResultUnformatted(name, renderTime) ==
    [name |-> name, renderTime |-> renderTime]

\* `return { name, renderTime: renderTime.toFixed(2) }`
RenderResult(name, renderTime) ==
    [name |-> name, renderTime |-> ToFixed2(renderTime)]

----------------------------------------------------------------------------
(* Bounds and host inputs *)

\* The longest component-render sequence explored.
MaxRenders == 2

\* The number of getPerformanceMetrics calls explored; they may overlap.
MaxCalls == 2

Slots == 1 .. MaxCalls

\* The hosts.  timing is performance.timing.responseStart - requestStart of
\* the page, in whole milliseconds; it is negative while the response has not
\* started (responseStart = 0).
Hosts ==
    \* no window (server side)
    { [window |-> FALSE, po |-> FALSE, timing |-> 0] }
    \* a window without PerformanceObserver
    \cup { [window |-> TRUE, po |-> FALSE, timing |-> Fx(-35)] }
    \* a browser with PerformanceObserver
    \cup { [window |-> TRUE, po |-> TRUE, timing |-> Fx(120)] }

ComponentNames == {"Widget", "Chart"}

\* Arguments of trackComponentRender: 734.567 ms and 400.004 ms.
RenderTimes == {73456700, 40000400}

\* What the host hands to one observer callback.
PaintBatches ==
    { <<[name |-> "first-paint", startTime |-> 240000400]>>,
      <<[name |-> "first-paint", startTime |-> 240000400],
        [name |-> "first-contentful-paint", startTime |-> 250000400]>> }

LcpBatches == { <<Fx(1900), 240012300>> }

LayoutShiftBatches ==
    { <<[value |-> 8004, hadRecentInput |-> FALSE],
        [value |-> 30000, hadRecentInput |-> TRUE],
        [value |-> 4002, hadRecentInput |-> FALSE],
        [value |-> 0, hadRecentInput |-> FALSE]>> }

\* The layout-shift entries a host reports: 0.08004 and 0.04002 without
\* recent input, 0.3 with recent input.
ShiftEntries ==
    { [value |-> 8004, hadRecentInput |-> FALSE],
      [value |-> 4002, hadRecentInput |-> FALSE],
      [value |-> 30000, hadRecentInput |-> TRUE] }

\* The longest list of entries drawn from ShiftEntries for one callback.
MaxShifts == 2

\* Every non-empty list of at most MaxShifts entries, and the lists of LayoutShiftBatches.
ShiftBatches ==
    UNION {[1 .. n -> ShiftEntries] : n \in 1 .. MaxShifts} \cup LayoutShiftBatches

\* processingStart - startTime of a first-input entry: 180.004 ms.
FirstInputDelays == {18000400}

\* performance.now() - event.timeStamp in the click handler: 250.002 ms.
ClickLatencies == {25000200}

\* performance.now() as read by the interactive-time collector.
NowValues == {305000400}

\* performance.now() as read by a load listener.
LoadNowValues == {290000400}

----------------------------------------------------------------------------
(* Promises and one getPerformanceMetrics call *)

Pending == <<"pending">>

Rejected == <<"rejected">>

Resolved(v) == <<"resolved", v>>

\* resolve(v): the first settlement of a promise is final.
Resolve(p, v) == IF p = Pending THEN Resolved(v) ELSE p

\* No event is being dispatched.
NoDispatch == [event |-> "none", listeners |-> <<>>]

\* The rest of a dispatch: the listeners still to be invoked, if any.
Remaining(event, listeners) ==
    IF listeners = <<>> THEN NoDispatch ELSE [event |-> event, listeners |-> listeners]

\* The calls in the order they were made, which is the order in which their
\* listeners were added to the window.
SlotSeq == [c \in Slots |-> c]

IdleCall ==
    [status |-> "idle",
     promise |->
        [firstContentfulPaint |-> Pending, timeToInteractive |-> Pending,
         largestContentfulPaint |-> Pending, cumulativeLayoutShift |-> Pending,
         firstInputDelay |-> Pending, interactionToNextPaint |-> Pending,
         timeToFirstByte |-> Pending],
     observer |-> [fcp |-> FALSE, lcp |-> FALSE, cls |-> FALSE, fid |-> FALSE],
     loadListener |-> FALSE,
     clickListener |-> FALSE,
     timer |-> [fid |-> "none", inp |-> "none"],
     interactionOccurred |-> FALSE,
     warned |-> {},
     shifts |-> <<>>]

\* list.getEntriesByName('first-contentful-paint')[0]
RECURSIVE GetEntryByName(_, _, _)
GetEntryByName(entries, name, i) ==
    IF i > Len(entries) THEN Undefined
    ELSE IF entries[i].name = name THEN Known(entries[i])
    ELSE GetEntryByName(entries, name, i + 1)

\* A variant that adds every entry, flagged or not.
RECURSIVE AccumulateShiftsAll(_, _, _)
AccumulateShiftsAll(clsValue, entries, i) ==
    IF i > Len(entries) THEN clsValue
    ELSE AccumulateShiftsAll(clsValue + entries[i].value, entries, i + 1)

\* The forEach of the layout-shift callback over one list of entries.
RECURSIVE AccumulateShifts(_, _, _)
AccumulateShifts(clsValue, entries, i) ==
    IF i > Len(entries) THEN clsValue
    ELSE AccumulateShifts(
             IF ~entries[i].hadRecentInput /\ entries[i].value # 0
             THEN clsValue + entries[i].value ELSE clsValue,
             entries, i + 1)

\* The executors of the seven collectors, run in order inside Promise.all([...]).
\* A throw inside an executor rejects its promise.
StartedCall(now) ==
    LET supported == env.window /\ env.po
    IN  [status |-> "pending",
         promise |->
            [firstContentfulPaint |-> IF supported THEN Pending ELSE Resolved(Null),
             timeToInteractive |->
                IF env.window
                THEN (IF readyState = "complete" THEN Resolved(Known(ToFixed2(now)))
                      ELSE Pending)
                ELSE Resolved(Null),
             largestContentfulPaint |-> IF supported THEN Pending ELSE Resolved(Null),
             cumulativeLayoutShift |-> IF supported THEN Pending ELSE Resolved(Null),
             firstInputDelay |-> IF supported THEN Pending ELSE Resolved(Null),
             \* window.addEventListener throws a ReferenceError without a window
             interactionToNextPaint |-> IF env.window THEN Pending ELSE Rejected,
             timeToFirstByte |->
                IF env.window THEN Resolved(Known(ToFixed2(env.timing)))
                ELSE Resolved(Null)],
         observer |-> [fcp |-> supported, lcp |-> supported, cls |-> supported,
                       fid |-> supported],
         loadListener |-> env.window,
         clickListener |-> env.window,
         timer |-> [fid |-> IF supported THEN "armed" ELSE "none",
                    inp |-> IF env.window THEN "armed" ELSE "none"],
         interactionOccurred |-> FALSE,
         warned |-> {},
         shifts |-> <<>>]

Settled(p) == p # Pending

AllResolved(call) == \A f \in ScalarFields : call.promise[f][1] = "resolved"

SomeRejected(call) == \E f \in ScalarFields : call.promise[f] = Rejected

\* A variant that builds the snapshot anew, without `...performanceMetrics`.
MergedMetricsRedeclared(pm, call) ==
    [firstContentfulPaint |-> call.promise.firstContentfulPaint[2],
     timeToInteractive |-> call.promise.timeToInteractive[2],
     largestContentfulPaint |-> call.promise.largestContentfulPaint[2],
     cumulativeLayoutShift |-> call.promise.cumulativeLayoutShift[2],
     firstInputDelay |-> call.promise.firstInputDelay[2],
     interactionToNextPaint |-> call.promise.interactionToNextPaint[2],
     timeToFirstByte |-> call.promise.timeToFirstByte[2],
     componentRenderTimes |-> <<>>]

\* A variant that merges field by field, keeping the old value of a field
\* whose collector resolved to null.
MergedMetricsKeepingKnown(pm, call) ==
    [f \in DOMAIN pm |->
        IF f \in ScalarFields /\ call.promise[f][2] # Null THEN call.promise[f][2]
        ELSE pm[f]]

\* `performanceMetrics = { ...performanceMetrics, firstContentfulPaint, ... }`
MergedMetrics(pm, call) ==
    [pm EXCEPT !.firstContentfulPaint = call.promise.firstContentfulPaint[2],
               !.timeToInteractive = call.promise.timeToInteractive[2],
               !.largestContentfulPaint = call.promise.largestContentfulPaint[2],
               !.cumulativeLayoutShift = call.promise.cumulativeLayoutShift[2],
               !.firstInputDelay = call.promise.firstInputDelay[2],
               !.interactionToNextPaint = call.promise.interactionToNextPaint[2],
               !.timeToFirstByte = call.promise.timeToFirstByte[2]]

----------------------------------------------------------------------------
(* runPerformanceTracker: its options and its synchronous steps *)

\* The thresholds object of the README's example call.
ReadmeThresholds ==
    [fcp |-> Fx(1800), lcp |-> Fx(2300), tti |-> Fx(2800), cls |-> 15000,
     componentRenderTime |-> Fx(400)]

\* `const mergedThresholds = { ...defaultThresholds, ...thresholds }`
MergedThresholds(thresholds) ==
    [k \in ThresholdKeys |->
        IF k \in DOMAIN thresholds THEN thresholds[k] ELSE defaultThresholds[k]]

\* The options object after `const { trackMetrics = true, ... } = options`;
\* thresholds is Undefined when the caller leaves it out.
RunOptions ==
    [trackMetrics : BOOLEAN, showAlerts : BOOLEAN, enableGamification : BOOLEAN,
     thresholds : {Undefined, Known(ReadmeThresholds)}]

\* `thresholds = {}` in the destructuring pattern.
ThresholdsOption(options) ==
    IF options.thresholds = Undefined THEN <<>> ELSE options.thresholds[1]

\* No runPerformanceTracker call has been made.
IdleRun ==
    [pc |-> "idle", options |-> Undefined, mergedThresholds |-> defaultThresholds,
     call |-> 0, steps |-> <<>>, snapshot |-> Undefined, alerts |-> <<>>,
     score |-> Undefined, lines |-> <<>>]

\* Step 2: `if (showAlerts) checkPerformanceAlerts(mergedThresholds)`.
AlertStep(r, pm) ==
    IF r.options[1].showAlerts
    THEN [r EXCEPT !.steps = Append(@, "alert"),
                   !.alerts = checkPerformanceAlerts(pm, ObjectArg(r.mergedThresholds))]
    ELSE r

\* Step 3: `if (enableGamification) { const score = calculatePerformanceScore();
\* provideFeedback(score) }`.
GamificationStep(r, pm) ==
    IF r.options[1].enableGamification
    THEN [r EXCEPT !.steps = @ \o <<"score", "feedback">>,
                   !.score = Known(calculatePerformanceScore(pm)),
                   !.lines = provideFeedback(calculatePerformanceScore(pm))]
    ELSE r

\* Steps 2 and 3, which run without a break on the snapshot as it then is.
SyncSteps(r, pm) ==
    [GamificationStep(AlertStep([r EXCEPT !.snapshot = Known(pm)], pm), pm)
        EXCEPT !.pc = "done"]

----------------------------------------------------------------------------
(* The state after the module is loaded *)

Init ==
    /\ performanceMetrics = InitialMetrics
    /\ env \in Hosts
    /\ readyState = "loading"
    /\ loadFired = FALSE
    /\ calls = [c \in Slots |-> IdleCall]
    /\ pushed = <<>>
    /\ last = [op |-> "none"]
    /\ run = IdleRun
    /\ dispatch = NoDispatch

----------------------------------------------------------------------------
(* Synchronous operations *)

\* trackComponentRender(name, renderTime)
TrackComponentRender(name, renderTime) ==
    /\ Len(performanceMetrics.componentRenderTimes) < MaxRenders
    /\ performanceMetrics' = PushRecord(performanceMetrics, name, renderTime)
    /\ pushed' = Append(pushed, [name |-> name, renderTime |-> renderTime])
    /\ last' = [op |-> "trackComponentRender", name |-> name,
                renderTime |-> renderTime, result |-> RenderResult(name, renderTime)]
    /\ UNCHANGED <<dispatch, run, env, readyState, loadFired, calls>>

\* A variant of checkPerformanceAlerts that empties the render log it has reported.
CheckPerformanceAlertsDraining(arg) ==
    /\ last' = [op |-> "checkPerformanceAlerts", arg |-> arg,
                alerts |-> checkPerformanceAlerts(performanceMetrics, arg)]
    /\ performanceMetrics' = [performanceMetrics EXCEPT !.componentRenderTimes = <<>>]
    /\ UNCHANGED <<dispatch, run, env, readyState, loadFired, calls, pushed>>

\* checkPerformanceAlerts(arg)
CheckPerformanceAlerts(arg) ==
    /\ last' = [op |-> "checkPerformanceAlerts", arg |-> arg,
                alerts |-> checkPerformanceAlerts(performanceMetrics, arg)]
    /\ UNCHANGED <<dispatch, run, performanceMetrics, env, readyState, loadFired, calls, pushed>>

\* `const score = calculatePerformanceScore()`
CalculatePerformanceScore ==
    /\ last' = [op |-> "calculatePerformanceScore",
                result |-> calculatePerformanceScore(performanceMetrics)]
    /\ UNCHANGED <<dispatch, run, performanceMetrics, env, readyState, loadFired, calls, pushed>>

\* `provideFeedback(score)`, which the code only calls on the score it has
\* just calculated.
ProvideFeedback ==
    /\ last.op = "calculatePerformanceScore"
    /\ last' = [op |-> "provideFeedback", score |-> last.result,
                lines |-> provideFeedback(last.result)]
    /\ UNCHANGED <<dispatch, run, performanceMetrics, env, readyState, loadFired, calls, pushed>>

----------------------------------------------------------------------------
(* getPerformanceMetrics and the handlers of its collectors *)

\* getPerformanceMetrics() up to its await: the seven collectors are started.
\* Calls are numbered in the order they are made.
GetPerformanceMetrics(c, now) ==
    /\ calls[c].status = "idle"
    /\ \A d \in Slots : d < c => calls[d].status # "idle"
    /\ calls' = [calls EXCEPT ![c] = StartedCall(now)]
    /\ UNCHANGED <<dispatch, run, performanceMetrics, env, readyState, loadFired, pushed, last>>

\* The observer callback of trackFirstContentfulPaint.
FcpObserverCallback(c, entries) ==
    /\ dispatch = NoDispatch
    /\ calls[c].observer.fcp
    /\ LET entry == GetEntryByName(entries, "first-contentful-paint", 1)
       IN  IF entry # Undefined
           THEN calls' = [calls EXCEPT
                    ![c].promise.firstContentfulPaint =
                        Resolve(@, Known(ToFixed2(entry[1].startTime))),
                    ![c].observer.fcp = FALSE]
           ELSE UNCHANGED calls
    /\ UNCHANGED <<dispatch, run, performanceMetrics, env, readyState, loadFired, pushed, last>>

\* The observer callback of trackLargestContentfulPaint: the last entry counts.
LcpObserverCallback(c, entries) ==
    /\ dispatch = NoDispatch
    /\ calls[c].observer.lcp
    /\ calls' = [calls EXCEPT
            ![c].promise.largestContentfulPaint =
                Resolve(@, Known(ToFixed2(entries[Len(entries)]))),
            ![c].observer.lcp = FALSE]
    /\ UNCHANGED <<dispatch, run, performanceMetrics, env, readyState, loadFired, pushed, last>>

\* The observer callback of trackCumulativeLayoutShift.
ClsObserverCallback(c, entries) ==
    /\ dispatch = NoDispatch
    /\ calls[c].observer.cls
    /\ calls' = [calls EXCEPT
            ![c].promise.cumulativeLayoutShift =
                Resolve(@, Known(ToFixed4(AccumulateShifts(0, entries, 1)))),
            ![c].observer.cls = FALSE,
            ![c].shifts = @ \o entries]
    /\ UNCHANGED <<dispatch, run, performanceMetrics, env, readyState, loadFired, pushed, last>>

\* The observer callback of trackFirstInputDelay.
FidObserverCallback(c, delay) ==
    /\ dispatch = NoDispatch
    /\ calls[c].observer.fid
    /\ calls' = [calls EXCEPT
            ![c].promise.firstInputDelay = Resolve(@, Known(ToFixed2(delay))),
            ![c].observer.fid = FALSE]
    /\ UNCHANGED <<dispatch, run, performanceMetrics, env, readyState, loadFired, pushed, last>>

\* Timers of the same delay fire in the order they were set: those of an
\* earlier call before those of a later one.
EarlierTimersFired(c) ==
    \A d \in Slots : d < c => calls[d].timer.fid # "armed" /\ calls[d].timer.inp # "armed"

\* The setTimeout callback of trackFirstInputDelay, 5 s after the call.
FidTimeout(c) ==
    /\ dispatch = NoDispatch
    /\ calls[c].timer.fid = "armed"
    /\ EarlierTimersFired(c)
    /\ IF performanceMetrics.firstInputDelay = Null
       THEN calls' = [calls EXCEPT
                ![c].timer.fid = "fired",
                ![c].warned = @ \cup {"fid"},
                ![c].promise.firstInputDelay = Resolve(@, Null)]
       ELSE calls' = [calls EXCEPT ![c].timer.fid = "fired"]
    /\ UNCHANGED <<dispatch, run, performanceMetrics, env, readyState, loadFired, pushed, last>>

\* The setTimeout callback of trackInteractionToNextPaint, 5 s after the call.
InpTimeout(c) ==
    /\ dispatch = NoDispatch
    /\ calls[c].timer.inp = "armed"
    /\ calls[c].timer.fid # "armed"
    /\ EarlierTimersFired(c)
    /\ IF ~calls[c].interactionOccurred
       THEN calls' = [calls EXCEPT
                ![c].timer.inp = "fired",
                ![c].warned = @ \cup {"inp"},
                ![c].promise.interactionToNextPaint = Resolve(@, Null)]
       ELSE calls' = [calls EXCEPT ![c].timer.inp = "fired"]
    /\ UNCHANGED <<dispatch, run, performanceMetrics, env, readyState, loadFired, pushed, last>>

\* handleInteraction of one call, run by a click.
HandledInteraction(call, latency) ==
    IF call.clickListener
    THEN [call EXCEPT
            !.promise.interactionToNextPaint = Resolve(@, Known(ToFixed2(latency))),
            !.interactionOccurred = TRUE,
            !.clickListener = FALSE]
    ELSE call

\* The handleInteraction listeners on the window, in the order they were added.
ClickListeners == SelectSeq(SlotSeq, LAMBDA c : calls[c].clickListener)

\* A click on the window: the listeners registered at that moment are to be
\* invoked one after another, and the first of them runs.  Promise
\* continuations may run before the next listener does (they do when the
\* browser dispatches the event, not when a script calls dispatchEvent).
Click(latency) ==
    /\ dispatch = NoDispatch
    /\ ClickListeners # <<>>
    /\ calls' = [calls EXCEPT ![Head(ClickListeners)] = HandledInteraction(@, latency)]
    /\ dispatch' = Remaining("click", Tail(ClickListeners))
    /\ UNCHANGED <<run, performanceMetrics, env, readyState, loadFired, pushed, last>>

\* The next handleInteraction of the click being dispatched.
ClickNextListener(latency) ==
    /\ dispatch.event = "click"
    /\ calls' = [calls EXCEPT ![Head(dispatch.listeners)] = HandledInteraction(@, latency)]
    /\ dispatch' = Remaining("click", Tail(dispatch.listeners))
    /\ UNCHANGED <<run, performanceMetrics, env, readyState, loadFired, pushed, last>>

\* The document finishes loading: readyState becomes "complete" before the
\* load event is dispatched.
DocumentComplete ==
    /\ dispatch = NoDispatch
    /\ env.window
    /\ readyState = "loading"
    /\ readyState' = "complete"
    /\ UNCHANGED <<dispatch, run, performanceMetrics, env, loadFired, calls, pushed, last>>

\* The load listener of one call; the listener is never removed.
LoadListener(call, now) ==
    IF call.loadListener
    THEN [call EXCEPT !.promise.timeToInteractive = Resolve(@, Known(ToFixed2(now)))]
    ELSE call

\* The load listeners on the window, in the order they were added.
LoadListeners == SelectSeq(SlotSeq, LAMBDA c : calls[c].loadListener)

\* The load event of the window, dispatched once: the listeners registered at
\* that moment are to be invoked one after another, and the first of them, if
\* any, runs.
LoadEvent(now) ==
    /\ dispatch = NoDispatch
    /\ env.window
    /\ readyState = "complete"
    /\ ~loadFired
    /\ loadFired' = TRUE
    /\ IF LoadListeners = <<>>
       THEN UNCHANGED <<calls, dispatch>>
       ELSE /\ calls' = [calls EXCEPT ![Head(LoadListeners)] = LoadListener(@, now)]
            /\ dispatch' = Remaining("load", Tail(LoadListeners))
    /\ UNCHANGED <<run, performanceMetrics, env, readyState, pushed, last>>

\* The next load listener of the load event being dispatched.
LoadNextListener(now) ==
    /\ dispatch.event = "load"
    /\ calls' = [calls EXCEPT ![Head(dispatch.listeners)] = LoadListener(@, now)]
    /\ dispatch' = Remaining("load", Tail(dispatch.listeners))
    /\ UNCHANGED <<run, performanceMetrics, env, readyState, loadFired, pushed, last>>

\* The continuation of getPerformanceMetrics after `await Promise.all([...])`.
Merge(c) ==
    /\ calls[c].status = "pending"
    /\ AllResolved(calls[c])
    /\ performanceMetrics' = MergedMetrics(performanceMetrics, calls[c])
    /\ calls' = [calls EXCEPT ![c].status = "merged"]
    /\ UNCHANGED <<dispatch, run, env, readyState, loadFired, pushed, last>>

\* Promise.all rejects as soon as one collector has rejected: the call rejects
\* and nothing is merged.
Reject(c) ==
    /\ calls[c].status = "pending"
    /\ SomeRejected(calls[c])
    /\ calls' = [calls EXCEPT ![c].status = "rejected"]
    /\ UNCHANGED <<dispatch, run, performanceMetrics, env, readyState, loadFired, pushed, last>>

----------------------------------------------------------------------------
(* runPerformanceTracker *)

\* runPerformanceTracker(options) up to its first await, or to its end when
\* trackMetrics is false and nothing is awaited.
RunPerformanceTracker(options, now) ==
    /\ run.pc = "idle"
    /\ LET r == [run EXCEPT !.options = Known(options),
                            !.mergedThresholds = MergedThresholds(ThresholdsOption(options))]
       IN  IF options.trackMetrics
           THEN /\ \E c \in Slots :
                    /\ calls[c].status = "idle"
                    /\ \A d \in Slots : d < c => calls[d].status # "idle"
                    /\ calls' = [calls EXCEPT ![c] = StartedCall(now)]
                    /\ run' = [r EXCEPT !.pc = "awaiting", !.call = c]
           ELSE /\ run' = SyncSteps(r, performanceMetrics)
                /\ UNCHANGED calls
    /\ UNCHANGED <<dispatch, performanceMetrics, env, readyState, loadFired, pushed, last>>

\* The continuation after `await getPerformanceMetrics()`: the snapshot is
\* logged, then steps 2 and 3 run.
RunContinue ==
    /\ run.pc = "awaiting"
    /\ calls[run.call].status = "merged"
    /\ run' = SyncSteps([run EXCEPT !.steps = Append(@, "aggregate")], performanceMetrics)
    /\ UNCHANGED <<dispatch, performanceMetrics, env, readyState, loadFired, calls, pushed, last>>

\* getPerformanceMetrics has rejected: the await throws and the call rejects.
RunReject ==
    /\ run.pc = "awaiting"
    /\ calls[run.call].status = "rejected"
    /\ run' = [run EXCEPT !.pc = "rejected"]
    /\ UNCHANGED <<dispatch, performanceMetrics, env, readyState, loadFired, calls, pushed, last>>

----------------------------------------------------------------------------
(* Spec: the collectors, the join and the render log *)

Next ==
    \/ \E c \in Slots, now \in NowValues : GetPerformanceMetrics(c, now)
    \/ \E c \in Slots, entries \in PaintBatches : FcpObserverCallback(c, entries)
    \/ \E c \in Slots, entries \in LcpBatches : LcpObserverCallback(c, entries)
    \/ \E c \in Slots, entries \in LayoutShiftBatches : ClsObserverCallback(c, entries)
    \/ \E c \in Slots, delay \in FirstInputDelays : FidObserverCallback(c, delay)
    \/ \E c \in Slots : FidTimeout(c)
    \/ \E c \in Slots : InpTimeout(c)
    \/ \E latency \in ClickLatencies : Click(latency)
    \/ \E latency \in ClickLatencies : ClickNextListener(latency)
    \/ DocumentComplete
    \/ \E now \in LoadNowValues : LoadEvent(now)
    \/ \E now \in LoadNowValues : LoadNextListener(now)
    \/ \E c \in Slots : Merge(c)
    \/ \E c \in Slots : Reject(c)
    \/ \E renderTime \in RenderTimes : TrackComponentRender("Widget", renderTime)

Spec == Init /\ [][Next]_vars

----------------------------------------------------------------------------
(* EvalSpec: the evaluators on the snapshots an aggregation can leave *)

ThresholdArgs ==
    { OmittedArg, NullArg, ObjectArg(<<>>), ObjectArg(ReadmeThresholds),
      ObjectArg([componentRenderTime |-> Fx(400)]),
      ObjectArg(MergedThresholds(ReadmeThresholds)) }

\* Snapshots after a merge in a browser with PerformanceObserver: the paint,
\* layout-shift, interactive-time and byte-latency fields are known, input
\* delay and interaction latency are known or timed out.
BrowserSnapshots ==
    { [firstContentfulPaint |-> Known(fcp), timeToInteractive |-> Known(tti),
       largestContentfulPaint |-> Known(lcp), cumulativeLayoutShift |-> Known(cls),
       firstInputDelay |-> fid, interactionToNextPaint |-> inp,
       timeToFirstByte |-> Known(ttfb), componentRenderTimes |-> <<>>] :
        fcp \in {Fx(1800), Fx(2500)}, tti \in {Fx(3000), Fx(3050)},
        lcp \in {Fx(2400), Fx(2600)}, cls \in {10000, 12000},
        fid \in {Null, Known(Fx(180))}, inp \in {Null, Known(Fx(250))},
        ttfb \in {Fx(-35), Fx(120), Fx(11000)} }

\* Snapshots after a merge in a browser for which 100 minus the sum of the
\* positive overages lies half way between two integers: layout shift 0.5250
\* and 0.5350 (57.5 and 56.5), paint 2050.00 (99.5) and 6250.00 (57.5), and
\* paint 2068.26 with interaction latency 281.74 (98.5).
HalfwaySnapshots ==
    { [InitialMetrics EXCEPT !.firstContentfulPaint = Known(fcp),
                             !.timeToInteractive = Known(Fx(3000)),
                             !.largestContentfulPaint = Known(Fx(2400)),
                             !.cumulativeLayoutShift = Known(cls),
                             !.interactionToNextPaint = inp,
                             !.timeToFirstByte = Known(Fx(120))] :
        <<fcp, cls, inp>> \in { <<Fx(1800), 52500, Null>>, <<Fx(1800), 53500, Null>>,
                               <<Fx(2050), 10000, Null>>, <<Fx(6250), 10000, Null>>,
                               <<206826000, 10000, Known(28174000)>> } }

\* Snapshots after a merge in a window without PerformanceObserver.
NoObserverSnapshots ==
    { [InitialMetrics EXCEPT !.cumulativeLayoutShift = Null,
                             !.timeToInteractive = Known(tti),
                             !.interactionToNextPaint = inp,
                             !.timeToFirstByte = Known(ttfb)] :
        tti \in {Fx(3000), Fx(3050)}, inp \in {Null, Known(Fx(250))},
        ttfb \in {Fx(-35), Fx(120), Fx(11000)} }

EvalInit ==
    /\ performanceMetrics \in {InitialMetrics} \cup BrowserSnapshots \cup HalfwaySnapshots
                                \cup NoObserverSnapshots
    /\ env = [window |-> TRUE, po |-> performanceMetrics.firstContentfulPaint # Null,
              timing |-> ToNumber(performanceMetrics.timeToFirstByte)]
    /\ readyState = "complete"
    /\ loadFired = TRUE
    /\ calls = [c \in Slots |-> IdleCall]
    /\ pushed = <<>>
    /\ last = [op |-> "none"]
    /\ run = IdleRun
    /\ dispatch = NoDispatch

EvalNext ==
    \/ \E name \in ComponentNames, renderTime \in RenderTimes :
            TrackComponentRender(name, renderTime)
    \/ \E arg \in ThresholdArgs : CheckPerformanceAlerts(arg)
    \/ CalculatePerformanceScore
    \/ ProvideFeedback

EvalSpec == EvalInit /\ [][EvalNext]_vars

----------------------------------------------------------------------------
(* ScoreSpec: calculatePerformanceScore on the same snapshots and the      *)
(* render log of one component                                             *)

ScoreNext ==
    \/ \E renderTime \in RenderTimes : TrackComponentRender("Widget", renderTime)
    \/ CalculatePerformanceScore

ScoreSpec == EvalInit /\ [][ScoreNext]_vars

----------------------------------------------------------------------------
(* FeedbackSpec: provideFeedback on every score *)

FeedbackInit ==
    /\ performanceMetrics = InitialMetrics
    /\ env \in Hosts
    /\ readyState = "loading"
    /\ loadFired = FALSE
    /\ calls = [c \in Slots |-> IdleCall]
    /\ pushed = <<>>
    /\ last \in {[op |-> "calculatePerformanceScore", result |-> s] : s \in 0 .. MAX_SCORE}
    /\ run = IdleRun
    /\ dispatch = NoDispatch

FeedbackNext == ProvideFeedback

FeedbackSpec == FeedbackInit /\ [][FeedbackNext]_vars

----------------------------------------------------------------------------
(* RunSpec: one runPerformanceTracker call, the host and the render log.   *)
(* One call adds one listener of each kind to the window, so every event   *)
(* it dispatches has run its only listener when its first step is done.    *)

RunNext ==
    \/ \E options \in RunOptions, now \in NowValues : RunPerformanceTracker(options, now)
    \/ RunContinue
    \/ RunReject
    \/ \E c \in Slots, entries \in PaintBatches : FcpObserverCallback(c, entries)
    \/ \E c \in Slots, entries \in LcpBatches : LcpObserverCallback(c, entries)
    \/ \E c \in Slots, entries \in LayoutShiftBatches : ClsObserverCallback(c, entries)
    \/ \E c \in Slots, delay \in FirstInputDelays : FidObserverCallback(c, delay)
    \/ \E c \in Slots : FidTimeout(c)
    \/ \E c \in Slots : InpTimeout(c)
    \/ \E latency \in ClickLatencies : Click(latency)
    \/ DocumentComplete
    \/ \E now \in LoadNowValues : LoadEvent(now)
    \/ \E c \in Slots : Merge(c)
    \/ \E c \in Slots : Reject(c)
    \/ \E renderTime \in RenderTimes : TrackComponentRender("Widget", renderTime)

RunSpec == Init /\ [][RunNext]_vars

----------------------------------------------------------------------------
(* ShiftSpec: the layout-shift collector on every list of entries *)

ShiftNext ==
    \/ \E c \in Slots, now \in NowValues : GetPerformanceMetrics(c, now)
    \/ \E c \in Slots, entries \in ShiftBatches : ClsObserverCallback(c, entries)

ShiftSpec == Init /\ [][ShiftNext]_vars

----------------------------------------------------------------------------
(* Claims about checkPerformanceAlerts and trackComponentRender (EvalSpec) *)

\* The threshold the specification resolves for a key: the caller's value when
\* the argument sets the key, the fixed default otherwise.
ResolvedThreshold(arg, key) ==
    IF arg[1] = "object" /\ key \in DOMAIN arg[2] THEN arg[2][key]
    ELSE defaultThresholds[key]

AlertsFor(alerts, key) == {j \in 1 .. Len(alerts) : alerts[j].key = key}

\* C1: for every snapshot and every argument of checkPerformanceAlerts
\* (partial, empty or omitted), an alert is emitted for a scalar metric if and
\* only if its value is known and strictly greater than the caller's threshold
\* for it, or than the default when the caller sets none.
C1_AlertIffAboveResolvedThreshold ==
    last.op = "checkPerformanceAlerts" =>
        \A i \in 1 .. Len(ScalarKeys) :
            LET key == ScalarKeys[i]
                value == performanceMetrics[FieldOf[key]]
            IN  (AlertsFor(last.alerts, key) # {})
                <=> (value # Null /\ value[1] > ResolvedThreshold(last.arg, key))

\* The records of a render sequence that exceed a ceiling, in order, each as
\* the alert the specification describes: the name, the render time as
\* trackComponentRender reported it, and the ceiling.
RECURSIVE ReportedAlerts(_, _, _)
ReportedAlerts(records, ceiling, i) ==
    IF i > Len(records) THEN <<>>
    ELSE (IF records[i].renderTime > ceiling
          THEN <<[key |-> "componentRenderTime", name |-> records[i].name,
                  value |-> RenderResult(records[i].name, records[i].renderTime).renderTime,
                  threshold |-> ceiling]>>
          ELSE <<>>)
         \o ReportedAlerts(records, ceiling, i + 1)

ComponentAlertsOf(alerts) ==
    SelectSeq(alerts, LAMBDA a : a.key = "componentRenderTime")

\* C2: with a componentRenderTime ceiling given, checkPerformanceAlerts emits
\* exactly one alert per render record whose render time is strictly greater
\* than the ceiling and none for the others, each naming the record, the
\* 2-decimal render time trackComponentRender reported for it, and the ceiling.
C2_OneAlertPerSlowRenderAsReported ==
    (last.op = "checkPerformanceAlerts"
        /\ Destructure(ThresholdsUsed(last.arg), "componentRenderTime") # Undefined)
    => ComponentAlertsOf(last.alerts)
        = ReportedAlerts(performanceMetrics.componentRenderTimes,
                         ResolvedThreshold(last.arg, "componentRenderTime"), 1)

Abs(x) == IF x < 0 THEN -x ELSE x

\* C3: a trackComponentRender call appends exactly one record, carrying the
\* name given, to the end of the render sequence, leaves the seven scalars
\* unchanged, and returns the name with the render time rounded to 2 decimals
\* (a multiple of 0.01 at most 0.005 away from the argument).
C3_TrackAppendsOneAndReturnsRounded ==
    [][ Len(pushed') = Len(pushed) + 1 =>
            LET old == performanceMetrics.componentRenderTimes
                new == performanceMetrics'.componentRenderTimes
                given == pushed'[Len(pushed')]
            IN  /\ Len(new) = Len(old) + 1
                /\ SubSeq(new, 1, Len(old)) = old
                /\ new[Len(new)].name = given.name
                /\ \A f \in ScalarFields : performanceMetrics'[f] = performanceMetrics[f]
                /\ last'.op = "trackComponentRender"
                /\ last'.result.name = given.name
                /\ last'.result.renderTime % 1000 = 0
                /\ 2 * Abs(last'.result.renderTime - given.renderTime) <= 1000 ]_vars

\* A second render of Widget, 734.567 ms, has been tracked and reported as 734.57.
C3_Witness ==
    /\ last.op = "trackComponentRender"
    /\ last.name = "Widget"
    /\ last.renderTime = 73456700
    /\ last.result = [name |-> "Widget", renderTime |-> 73457000]
    /\ Len(performanceMetrics.componentRenderTimes) = 2
    /\ performanceMetrics.firstContentfulPaint = Known(Fx(2500))

----------------------------------------------------------------------------
(* Claims about calculatePerformanceScore and provideFeedback *)

\* Every known scalar and every render record is at or below its default ceiling.
WithinDefaults(pm) ==
    /\ \A i \in 1 .. Len(ScalarKeys) :
            LET value == pm[FieldOf[ScalarKeys[i]]]
            IN  value = Null \/ value[1] <= defaultThresholds[ScalarKeys[i]]
    /\ \A i \in 1 .. Len(pm.componentRenderTimes) :
            pm.componentRenderTimes[i].renderTime <= defaultThresholds.componentRenderTime

\* C4: whatever the snapshot and the render log, calculatePerformanceScore
\* returns an integer in [0,100], and exactly 100 when every known scalar and
\* every render record is at or below its default ceiling.
C4_ScoreInRangeAndFullWithinDefaults ==
    LET s == calculatePerformanceScore(performanceMetrics)
    IN  /\ s \in 0 .. 100
        /\ WithinDefaults(performanceMetrics) => s = 100
        /\ last.op = "calculatePerformanceScore" => last.result = s

\* The score has been calculated as 0 for a snapshot with two slow renders and
\* a byte latency far above its ceiling.
C4_Witness ==
    /\ last.op = "calculatePerformanceScore"
    /\ last.result = 0
    /\ Len(performanceMetrics.componentRenderTimes) = 2
    /\ performanceMetrics.timeToFirstByte = Known(Fx(11000))

\* The overage of one scalar, in score points: (value - ceiling) / 100 for a
\* time, (value - ceiling) * 100 for layout-shift; an unknown value has none.
Overage(pm, key) ==
    LET value == pm[FieldOf[key]]
    IN  IF value = Null THEN 0
        ELSE IF key = "cls" THEN (value[1] - defaultThresholds.cls) * 100
        ELSE (value[1] - defaultThresholds[key]) \div 100

PositivePart(x) == IF x > 0 THEN x ELSE 0

RECURSIVE ScalarPenalty(_, _)
ScalarPenalty(pm, i) ==
    IF i = 0 THEN 0
    ELSE PositivePart(Overage(pm, ScalarKeys[i])) + ScalarPenalty(pm, i - 1)

RECURSIVE RenderPenalty(_, _)
RenderPenalty(records, i) ==
    IF i = 0 THEN 0
    ELSE PositivePart((records[i].renderTime - defaultThresholds.componentRenderTime)
                        \div 100)
         + RenderPenalty(records, i - 1)

\* P: the sum of the positive overages of the seven scalars and of every render record.
TotalPenalty(pm) ==
    ScalarPenalty(pm, Len(ScalarKeys))
    + RenderPenalty(pm.componentRenderTimes, Len(pm.componentRenderTimes))

\* round(100 - P), a half rounded up, as a plain integer.
RoundedRemainder(pm) == (2 * (Fx(100) - TotalPenalty(pm)) + One) \div (2 * One)

\* C5: the score calculatePerformanceScore returns is max(0, round(100 - P))
\* for the sum P of the positive overages against the default ceilings, an
\* unknown metric adding nothing, whatever thresholds checkPerformanceAlerts
\* was given before.
C5_ScoreIsClampedRoundedRemainder ==
    last.op = "calculatePerformanceScore"
        => last.result = Max(0, RoundedRemainder(performanceMetrics))

\* Values a metric may be raised by: 0.01, 50 and 10000 (0.0001 and 0.02 for
\* layout shift).
Raises(key) == IF key = "cls" THEN {10, 2000} ELSE {1000, Fx(50), Fx(10000)}

\* Values at or below the default ceiling of a metric.
AtOrBelow(key) ==
    IF key = "cls" THEN {0, 5000, defaultThresholds.cls}
    ELSE {0, defaultThresholds[key] - 1000, defaultThresholds[key]}

\* C6: against the score calculatePerformanceScore has returned, raising one
\* known scalar or one render time, the rest held fixed, never gives a higher
\* score; and replacing an unknown scalar by a value at or below its default
\* ceiling gives the same score.
C6_ScoreMonotoneAndBlindToUnknown ==
    last.op = "calculatePerformanceScore" =>
        LET pm == performanceMetrics
            s == last.result
        IN  /\ \A i \in 1 .. Len(ScalarKeys) :
                  LET key == ScalarKeys[i]
                      f == FieldOf[key]
                  IN  IF pm[f] = Null
                      THEN \A v \in AtOrBelow(key) :
                              calculatePerformanceScore([pm EXCEPT ![f] = Known(v)]) = s
                      ELSE \A d \in Raises(key) :
                              calculatePerformanceScore(
                                  [pm EXCEPT ![f] = Known(pm[f][1] + d)]) <= s
            /\ \A i \in 1 .. Len(pm.componentRenderTimes) :
                  \A d \in Raises("componentRenderTime") :
                      calculatePerformanceScore(
                          [pm EXCEPT !.componentRenderTimes[i].renderTime = @ + d]) <= s

\* A snapshot with unknown input delay, a paint time above its ceiling and two
\* render records, for which the score has been calculated below 100.
C6_Witness ==
    /\ last.op = "calculatePerformanceScore"
    /\ last.result < 100
    /\ last.result > 0
    /\ performanceMetrics.firstInputDelay = Null
    /\ performanceMetrics.firstContentfulPaint = Known(Fx(2500))
    /\ Len(performanceMetrics.componentRenderTimes) = 2

\* The tier the specification gives a score.
TierOf(s) ==
    IF s >= 90 THEN "excellent" ELSE IF s >= 70 THEN "good" ELSE "needs improvement"

\* C7: for every integer score in [0,100] provideFeedback logs exactly one
\* message, of the first tier in descending order that the score reaches:
\* excellent from 90, good from 70 to 89, needs improvement below 70.
C7_FeedbackTierLadder ==
    /\ last.op = "provideFeedback" =>
          /\ Len(last.lines) = 1
          /\ last.lines[1].score = last.score
          /\ last.lines[1].tier = TierOf(last.score)
    /\ provideFeedback(90)[1].tier = "excellent"
    /\ provideFeedback(89)[1].tier = "good"
    /\ provideFeedback(70)[1].tier = "good"
    /\ provideFeedback(69)[1].tier = "needs improvement"
    /\ provideFeedback(0)[1].tier = "needs improvement"

\* Feedback has been given for a score of 70: the good tier.
C7_Witness ==
    /\ last.op = "provideFeedback"
    /\ last.score = 70
    /\ last.lines = <<[tier |-> "good", score |-> 70]>>

----------------------------------------------------------------------------
(* Claims about the aggregation and the collectors (Spec) *)

\* C8: under every interleaving of trackComponentRender calls with
\* getPerformanceMetrics calls, overlapping or not, the render sequence of the
\* snapshot is exactly the history of the pushes in call order.
C8_RenderLogIsPushHistory ==
    performanceMetrics.componentRenderTimes = pushed

\* Two overlapping calls have both merged, the second after the first, and two
\* different renders were pushed, the last one after the first call had started.
C8_Witness ==
    /\ calls[1].status = "merged"
    /\ calls[2].status = "merged"
    /\ performanceMetrics.timeToInteractive = calls[2].promise.timeToInteractive[2]
    /\ calls[1].promise.timeToInteractive # calls[2].promise.timeToInteractive
    /\ Len(pushed) = 2
    /\ pushed[1] # pushed[2]
    /\ last.op = "trackComponentRender"

\* C9: in a host without a window each of the seven collectors of a call
\* resolves to null at once, none rejects, and the call itself does not reject.
C9_UnsupportedHostResolvesAllNull ==
    ~env.window =>
        \A c \in Slots :
            calls[c].status # "idle" =>
                /\ \A f \in ScalarFields : calls[c].promise[f] = Resolved(Null)
                /\ calls[c].status # "rejected"

\* C10: once the 5-second fallback timer of the input-delay or of the
\* interaction-latency collector of a call has fired, that collector's promise
\* is settled, in the first call and in every later one.
C10_SettledWhenFallbackFires ==
    \A c \in Slots :
        /\ calls[c].timer.fid = "fired" => Settled(calls[c].promise.firstInputDelay)
        /\ calls[c].timer.inp = "fired" => Settled(calls[c].promise.interactionToNextPaint)

\* Nothing the program itself has scheduled for a call is still to come: the
\* load event has been dispatched to every listener and none of the call's
\* timers is armed.
NothingScheduled(c) ==
    /\ loadFired
    /\ dispatch = NoDispatch
    /\ calls[c].timer.fid # "armed"
    /\ calls[c].timer.inp # "armed"

\* C11: no call to getPerformanceMetrics rejects, in any host; and no call is
\* left waiting for data: once the load event and the call's fallback timers
\* have passed, every collector of the call has resolved, whether or not an
\* observation ever arrived, in the first call and in a repeated one.
C11_CallNeitherRejectsNorBlocks ==
    \A c \in Slots :
        /\ calls[c].status # "rejected"
        /\ (calls[c].status = "pending" /\ NothingScheduled(c)) => AllResolved(calls[c])

----------------------------------------------------------------------------
(* Claims about runPerformanceTracker (RunSpec) *)

\* The steps the flags of a call select, in the order of the specification.
ExpectedSteps(options) ==
    (IF options.trackMetrics THEN <<"aggregate">> ELSE <<>>)
    \o (IF options.showAlerts THEN <<"alert">> ELSE <<>>)
    \o (IF options.enableGamification THEN <<"score", "feedback">> ELSE <<>>)

\* The alerts are those of the caller's thresholds laid key by key over the defaults.
AlertsUseCallerOverDefaults(alerts, pm, options) ==
    LET arg == ObjectArg(ThresholdsOption(options))
    IN  /\ \A i \in 1 .. Len(ScalarKeys) :
              LET key == ScalarKeys[i]
                  value == pm[FieldOf[key]]
              IN  (AlertsFor(alerts, key) # {})
                  <=> (value # Null /\ value[1] > ResolvedThreshold(arg, key))
        /\ \A j \in 1 .. Len(alerts) :
              alerts[j].threshold = ResolvedThreshold(arg, alerts[j].key)
        /\ Len(ComponentAlertsOf(alerts))
              = Cardinality({i \in 1 .. Len(pm.componentRenderTimes) :
                    pm.componentRenderTimes[i].renderTime
                        > ResolvedThreshold(arg, "componentRenderTime")})

\* C12: a runPerformanceTracker call that has ended has run exactly the steps
\* its flags select, in the order aggregate, alert, score/feedback; nothing is
\* evaluated while the aggregation is awaited, and with trackMetrics the
\* alerts and the score read the snapshot as merged by the call's aggregation;
\* without trackMetrics no collector is started and the scalars stay as they
\* were; the alerts use the caller's thresholds merged over the defaults.
C12_StepsInOrderIffFlagged ==
    run.pc # "idle" =>
        LET options == run.options[1]
        IN  /\ run.pc = "awaiting" => run.steps = <<>>
            /\ run.pc \in {"done", "rejected"} => run.steps = ExpectedSteps(options)
            /\ (run.pc = "done" /\ options.trackMetrics) =>
                  /\ calls[run.call].status = "merged"
                  /\ \A f \in ScalarFields :
                        run.snapshot[1][f] = calls[run.call].promise[f][2]
            /\ ~options.trackMetrics =>
                  /\ run.pc = "done"
                  /\ \A c \in Slots : calls[c] = IdleCall
                  /\ \A f \in ScalarFields :
                        /\ performanceMetrics[f] = InitialMetrics[f]
                        /\ run.snapshot[1][f] = InitialMetrics[f]
            /\ (run.pc = "done" /\ options.showAlerts) =>
                  AlertsUseCallerOverDefaults(run.alerts, run.snapshot[1], options)
            /\ (run.pc = "done" /\ options.enableGamification) =>
                  /\ run.score = Known(calculatePerformanceScore(run.snapshot[1]))
                  /\ run.lines = provideFeedback(run.score[1])

----------------------------------------------------------------------------
(* Claims about the merge, the fallbacks and the subscriptions (Spec) *)

\* The seven scalars of the snapshot are the results of the call in slot c.
ScalarsAreResultsOf(pm, c) ==
    \A f \in ScalarFields :
        /\ calls[c].promise[f][1] = "resolved"
        /\ pm[f] = calls[c].promise[f][2]

\* C13: the scalars of the snapshot change only in one step that ends a call
\* whose seven collectors had all resolved, and that replaces all seven by the
\* call's results; so in every state, also with overlapping calls, the scalars
\* an evaluator reads are all initial or all the results of one single call.
C13_ScalarsFromOneCycle ==
    /\ [](\/ \A f \in ScalarFields : performanceMetrics[f] = InitialMetrics[f]
          \/ \E c \in Slots :
                calls[c].status = "merged" /\ ScalarsAreResultsOf(performanceMetrics, c))
    /\ [][ (\E f \in ScalarFields : performanceMetrics'[f] # performanceMetrics[f]) =>
              \E c \in Slots :
                  /\ calls[c].status = "pending"
                  /\ AllResolved(calls[c])
                  /\ calls'[c] = [calls[c] EXCEPT !.status = "merged"]
                  /\ ScalarsAreResultsOf(performanceMetrics', c) ]_vars

\* Two overlapping calls with different results in three fields have both
\* merged, the first call last; the second had resolved its input delay to
\* null by timeout and the first had observed one.
C13_Witness ==
    /\ calls[1].status = "merged"
    /\ calls[2].status = "merged"
    /\ calls[1].promise.firstInputDelay = Resolved(Known(Fx(180)))
    /\ calls[2].promise.firstInputDelay = Resolved(Null)
    /\ calls[1].promise.interactionToNextPaint # calls[2].promise.interactionToNextPaint
    /\ calls[1].promise.timeToInteractive # calls[2].promise.timeToInteractive
    /\ calls[1].promise.firstContentfulPaint = calls[2].promise.firstContentfulPaint
    /\ ScalarsAreResultsOf(performanceMetrics, 1)

\* The promise was not resolved by an observation: it is pending or null.
NoObservation(p) == p = Pending \/ p = Resolved(Null)

\* C14: a call has logged the timeout warning of its input-delay (or of its
\* interaction-latency) collector if and only if the collector's 5-second timer
\* has fired with no observation resolved before it, and then the collector
\* has resolved to null; a call whose observation came first logs no warning,
\* whether or not the merge has happened.
C14_WarningIffTimedOut ==
    \A c \in Slots :
        /\ "fid" \in calls[c].warned => calls[c].promise.firstInputDelay = Resolved(Null)
        /\ (calls[c].timer.fid = "fired" /\ NoObservation(calls[c].promise.firstInputDelay))
              => "fid" \in calls[c].warned
        /\ "inp" \in calls[c].warned => calls[c].promise.interactionToNextPaint = Resolved(Null)
        /\ (calls[c].timer.inp = "fired" /\ NoObservation(calls[c].promise.interactionToNextPaint))
              => "inp" \in calls[c].warned

IsResolved(p) == p[1] = "resolved"

\* C15: in every state, a collector whose promise has resolved (by an
\* observation, by the already-loaded shortcut or by its fallback timer) holds
\* no connected observer and no registered event listener.
C15_ResolvedCollectorHoldsNoSubscription ==
    \A c \in Slots :
        LET call == calls[c]
        IN  /\ IsResolved(call.promise.firstContentfulPaint) => ~call.observer.fcp
            /\ IsResolved(call.promise.largestContentfulPaint) => ~call.observer.lcp
            /\ IsResolved(call.promise.cumulativeLayoutShift) => ~call.observer.cls
            /\ IsResolved(call.promise.firstInputDelay) => ~call.observer.fid
            /\ IsResolved(call.promise.timeToInteractive) => ~call.loadListener
            /\ IsResolved(call.promise.interactionToNextPaint) => ~call.clickListener

----------------------------------------------------------------------------
(* Claims about the evaluators as readers (EvalSpec) *)

Readers == {"checkPerformanceAlerts", "calculatePerformanceScore", "provideFeedback"}

\* C16: a step of checkPerformanceAlerts (with any thresholds argument), of
\* calculatePerformanceScore or of provideFeedback leaves the seven scalars
\* and the component-render sequence of the snapshot as they were.
C16_ReadersLeaveSnapshot ==
    [][ (last' # last /\ last'.op \in Readers) =>
            /\ \A f \in ScalarFields : performanceMetrics'[f] = performanceMetrics[f]
            /\ performanceMetrics'.componentRenderTimes
                 = performanceMetrics.componentRenderTimes ]_vars

\* Alerts have been checked against the README's thresholds on a merged
\* snapshot with two render records: three scalar alerts and two render alerts
\* were logged, and the snapshot still holds both records.
C16_Witness ==
    /\ last.op = "checkPerformanceAlerts"
    /\ last.arg = ObjectArg(ReadmeThresholds)
    /\ Len(last.alerts) = 5
    /\ performanceMetrics.firstContentfulPaint = Known(Fx(2500))
    /\ performanceMetrics.componentRenderTimes = pushed
    /\ Len(pushed) = 2

----------------------------------------------------------------------------
(* Claims about the values of the snapshot and of the collectors (Spec) *)

\* C17: in every state each scalar of the snapshot is null or a number that is
\* not negative, whatever timestamps and observations the host supplies; and
\* layout-shift is null only in a host without observation support.
C17_ScalarsNullOrNonNegative ==
    /\ \A f \in ScalarFields :
          performanceMetrics[f] = Null \/ performanceMetrics[f][1] >= 0
    /\ performanceMetrics.cumulativeLayoutShift = Null => ~(env.window /\ env.po)

----------------------------------------------------------------------------
(* Claims about the layout-shift collector (ShiftSpec) *)

\* The sum of the values of the entries not flagged as caused by recent input.
RECURSIVE SumOfValues(_)
SumOfValues(entries) ==
    IF entries = <<>> THEN 0 ELSE Head(entries).value + SumOfValues(Tail(entries))

UnflaggedSum(entries) ==
    SumOfValues(SelectSeq(entries, LAMBDA e : ~e.hadRecentInput))

\* The layout-shift collector of a call has resolved by an observation.
ShiftResolved(call) ==
    IsResolved(call.promise.cumulativeLayoutShift) /\ call.shifts # <<>>

\* The statement of C18 as written: the layout-shift collector resolves to
\* the sum itself of the unflagged observations delivered to it.
C18_ResolvesToExactSum ==
    \A c \in Slots :
        ShiftResolved(calls[c]) =>
            calls[c].promise.cumulativeLayoutShift
                = Resolved(Known(UnflaggedSum(calls[c].shifts)))

\* C18 (amended): the layout-shift collector resolves to the sum of the
\* values of the unflagged observations delivered to it up to its resolution,
\* rounded to 4 decimals (a multiple of 0.0001 at most 0.00005 away from the
\* sum); flagged observations add nothing, and once it has resolved no further
\* observation is delivered to it and its result stays as it is.
C18_ResolvesToRoundedUnflaggedSum ==
    /\ [](\A c \in Slots :
            ShiftResolved(calls[c]) =>
                LET result == calls[c].promise.cumulativeLayoutShift[2]
                    total == UnflaggedSum(calls[c].shifts)
                IN  /\ result # Null
                    /\ result[1] % 10 = 0
                    /\ 2 * Abs(result[1] - total) <= 10
                    /\ ~calls[c].observer.cls)
    /\ [][ \A c \in Slots :
             IsResolved(calls[c].promise.cumulativeLayoutShift) =>
                 /\ calls'[c].promise.cumulativeLayoutShift
                      = calls[c].promise.cumulativeLayoutShift
                 /\ calls'[c].shifts = calls[c].shifts ]_vars

\* A call was handed 0.08004, a flagged 0.3, 0.04002 and 0 in one list and
\* has resolved 0.1201; the other call was handed a flagged 0.3 alone and has
\* resolved 0.
C18_Witness ==
    /\ Len(calls[1].shifts) = 4
    /\ calls[1].shifts[2] = [value |-> 30000, hadRecentInput |-> TRUE]
    /\ calls[1].promise.cumulativeLayoutShift = Resolved(Known(12010))
    /\ calls[2].shifts = <<[value |-> 30000, hadRecentInput |-> TRUE]>>
    /\ calls[2].promise.cumulativeLayoutShift = Resolved(Known(0))

----------------------------------------------------------------------------
(* Claims about racing resolution sources (Spec) *)

\* The fallback timer t of call c fires in this step.
TimerFires(c, t) == calls[c].timer[t] = "armed" /\ calls'[c].timer[t] = "fired"

\* C19: when the fallback timer of the input-delay or of the
\* interaction-latency collector fires before any observation, the collector
\* resolves to null there and then; a collector's promise, once settled, keeps
\* its value whatever source fires later (the load event after the
\* already-loaded check, an observation or a click after the timer, the timer
\* after an observation); the merge of a call stores the values its promises
\* settled to first; and a step that ends no call leaves the scalars of the
\* snapshot as they are.
C19_FirstSourceWinsAndIsFinal ==
    [][ /\ \A c \in Slots :
              /\ (TimerFires(c, "fid") /\ calls[c].promise.firstInputDelay = Pending)
                    => calls'[c].promise.firstInputDelay = Resolved(Null)
              /\ (TimerFires(c, "inp") /\ calls[c].promise.interactionToNextPaint = Pending)
                    => calls'[c].promise.interactionToNextPaint = Resolved(Null)
        /\ \A c \in Slots, f \in ScalarFields :
              Settled(calls[c].promise[f]) => calls'[c].promise[f] = calls[c].promise[f]
        /\ \A c \in Slots :
              (calls[c].status = "pending" /\ calls'[c].status = "merged") =>
                  \A f \in ScalarFields :
                      /\ IsResolved(calls[c].promise[f])
                      /\ performanceMetrics'[f] = calls[c].promise[f][2]
        /\ (\A c \in Slots : calls'[c].status = calls[c].status) =>
              \A f \in ScalarFields : performanceMetrics'[f] = performanceMetrics[f] ]_vars

=============================================================================
